---- MODULE Spec2Model ----
(***************************************************************************)
(* Model of src/Q4.py: DynamicRateLimiter (token bucket), CircuitBreaker,  *)
(* the module-level dead_letter deque and the resilient() retry wrapper.   *)
(*                                                                         *)
(* Units.  time.time() is read on a grid of ticks of 0.01 s.  Rates are    *)
(* held in units of 0.001 tokens/s, so the floor of set_rate is 1.  One    *)
(* tick at one rate unit refills 0.00001 token, so token counts are held   *)
(* in that unit and one whole token is TokenUnit.                          *)
(***************************************************************************)
EXTENDS Integers, Sequences, FiniteSets, TLC

\* ------------------------------------------------------------------ bounds
MaxCalls == 2            \* wrapper invocations made by the caller
MaxTries == 4            \* attempts a caller who calls again may use in all
MaxSpins == 2            \* polls of one acquire() before it is left blocked
DeadLetterMaxLen == 2    \* stands for deque(maxlen=10000)
MaxBreakerCalls == 5     \* calls made on a breaker that is used directly
MaxLimiterCalls == 3     \* calls the threads make on a limiter used directly
MaxLimiterTime == 3      \* ticks that pass while a limiter is used directly
MaxBreakerTime == 3      \* ticks that pass while a breaker is used directly
MaxRaceCalls == 4        \* failure() calls the threads sharing a breaker make
MaxRaceTime == 2         \* ticks that pass while threads share a breaker
MaxIdleTime == 40        \* time up to which the caller pauses between its calls

\* --------------------------------------------------------------- constants
RateFloor == 1                   \* 0.001 tokens/s
TokenUnit == 1000 * 100          \* rate units per token/s * ticks per second
AcquireSleeps == {1, 2}          \* 0.01 + random()*0.02 s, in ticks
RetryableStatuses == {429, 500, 502, 503, 504}
NONE == "None"
RPSHeader == "X-Rate-Limit-RPS"

\* ---------------------------------------------------------- pure helpers
Min(a, b) == IF a <= b THEN a ELSE b
Max(a, b) == IF a >= b THEN a ELSE b

RECURSIVE Pow2(_)
Pow2(n) == IF n <= 0 THEN 1 ELSE 2 * Pow2(n - 1)

\* str(e) of the exceptions that occur, character by character
Chars(m) ==
  CASE m = "retryable" -> <<"r","e","t","r","y","a","b","l","e">>
    [] m = "circuit-open" -> <<"c","i","r","c","u","i","t","-","o","p","e","n">>
    [] m = "No active exception to reraise" ->
         <<"N","o"," ","a","c","t","i","v","e"," ","e","x","c","e","p","t","i","o","n",
           " ","t","o"," ","r","e","r","a","i","s","e">>
    [] m = "timeout" -> <<"t","i","m","e","o","u","t">>
    [] m = "not retryable" -> <<"n","o","t"," ","r","e","t","r","y","a","b","l","e">>

\* Python's `needle in hay` on strings
SubstringOf(needle, hay) ==
  \E i \in 0..(Len(hay) - Len(needle)) : SubSeq(hay, i + 1, i + Len(needle)) = needle

\* `"retryable" not in str(e)` negated
IsRetryableMessage(msg) == SubstringOf(Chars("retryable"), Chars(msg))

\* float(new_rps) of the header values the server sends, in rate units
Float(s) ==
  CASE s = "10" -> 10000
    [] s = "0" -> 0

\* faulty variant: the header value tested as a number, so that "0" is false
TruthyAsNumber(v) == v /= NONE /\ v /= "" /\ v /= "0"

\* truth value of resp.get('headers', {}).get('X-Rate-Limit-RPS')
Truthy(v) == v /= NONE /\ v /= ""

DictGet(d, key) == IF key \in DOMAIN d THEN d[key] ELSE NONE

\* f"status-{resp['status']}"
StatusReason(status) == "status-" \o ToString(status)

\* faulty variants: 500 left out of the retryable statuses; every status below
\* 429 taken for a success
ClassOfWithout500(status) ==
  IF status = 200 THEN "ok"
  ELSE IF status \in RetryableStatuses \ {500} THEN "retryable" ELSE "terminal"
ClassOfBelow429Ok(status) ==
  IF status < 429 THEN "ok"
  ELSE IF status \in RetryableStatuses THEN "retryable" ELSE "terminal"

\* lines 67 and 70: what the wrapper makes of a status
ClassOf(status) ==
  IF status = 200 THEN "ok"
  ELSE IF status \in RetryableStatuses THEN "retryable" ELSE "terminal"

\* line 58: for k in range(1, max_attempts+1)
InRange(attempt, max) == attempt \in 1..max

\* faulty variant: the last attempt is not told apart
GiveUpOnMessageOnly(msg, attempt, max) == ~IsRetryableMessage(msg)

\* line 77: "retryable" not in str(e) or k == max_attempts
GiveUp(msg, attempt, max) == ~IsRetryableMessage(msg) \/ attempt = max

\* faulty variant: no floor
ClampRateNoFloor(r) == r

\* DynamicRateLimiter.set_rate: max(0.001, float(rps))
ClampRate(r) == Max(RateFloor, r)

\* faulty variant: the elapsed time is not credited
RefillForgetsElapsed(tok, elapsed, r, cap) == Min(cap, tok)

\* DynamicRateLimiter.acquire: min(capacity, tokens + (now - ts) * rate)
Refill(tok, elapsed, r, cap) == Min(cap, tok + elapsed * r)

\* faulty variant: the breaker never rejects
IsOpenNever(t, until) == FALSE

\* faulty variant: still open at open_until itself
IsOpenInclusive(t, until) == t <= until

\* CircuitBreaker.before: time.time() < self.open_until
IsOpen(t, until) == t < until

\* faulty variant: the count is not reset when the breaker opens
FailureCountNoReset(fc, threshold) == fc + 1

\* CircuitBreaker.failure: the (fail_count, open_until) it leaves
FailureCount(fc, threshold) == IF fc + 1 >= threshold THEN 0 ELSE fc + 1
FailureOpenUntil(fc, threshold, until, t, after) ==
  IF fc + 1 >= threshold THEN t + after ELSE until

\* faulty variant: a full queue refuses the new entry
DequeAppendKeepOldest(q, e, maxlen) == IF Len(q) >= maxlen THEN q ELSE Append(q, e)

\* deque(maxlen=...).append
DequeAppend(q, e, maxlen) ==
  IF maxlen = 0 THEN q
  ELSE IF Len(q) >= maxlen THEN Append(Tail(q), e) ELSE Append(q, e)

\* line 81: random.random() lies in [0, 1).  With x = base_backoff * 2**(k-1)
\* ticks it is read as r / (2 * x), r in 0..2x-1, a grid fine enough for the
\* product to take every whole number of ticks it can take.
RandomDraws(base, attempt) == 0..(2 * base * Pow2(attempt - 1) - 1)

\* base_backoff * 2**(k-1) * (0.9 + 0.2*random.random()) in tenths of a tick:
\* x * (0.9 + 0.2 * r / (2 * x)) = (9 * x + r) / 10
BackoffTenths(base, attempt, r) == 9 * base * Pow2(attempt - 1) + r

\* the draws whose delay is a whole number of ticks, and that delay
OnTick(base, attempt, r) == BackoffTenths(base, attempt, r) % 10 = 0
BackoffDelay(base, attempt, r) == BackoffTenths(base, attempt, r) \div 10

\* a bare `raise`: re-raises the exception the calling thread is handling,
\* or RuntimeError("No active exception to reraise") when there is none
BareRaise(handling) ==
  IF handling = NONE THEN "No active exception to reraise" ELSE handling

\* ------------------------------------------------------------------ state
VARIABLES
  now,              \* time.time(), in ticks
  capacity, rate, tokens, ts,          \* DynamicRateLimiter
  fail_threshold, reset_after, fail_count, open_until,   \* CircuitBreaker
  dead_letter,      \* the module-level deque
  max_attempts, base_backoff,          \* resilient(...) arguments
  pc, k, args, handling, resp, exc, delay, outcome,      \* wrapper frame
  calls, tries, appended, inv, att, sleeps, spins,       \* history
  opened,           \* time of the first opening no failure of the function has followed
  lock, th, last_set, last_refill,     \* threads using one limiter directly
  acct,                                \* what that limiter has credited and handed out
  blog                                 \* calls made on one breaker directly

limiter == <<capacity, rate, tokens, ts>>
breaker == <<fail_threshold, reset_after, fail_count, open_until>>
config == <<max_attempts, base_backoff>>
frame == <<pc, k, args, handling, resp, exc, delay, outcome>>
history == <<calls, tries, appended, inv, att, sleeps, spins, opened>>
direct == <<lock, th, last_set, last_refill, acct, blog>>
vars == <<now, limiter, breaker, dead_letter, config, frame, history, direct>>

\* ----------------------------------------------------- the wrapped function
NoHeaders == [h \in {} |-> ""]
HeaderSets == {NoHeaders} \cup {[h \in {RPSHeader} |-> v] : v \in {"10", "0"}}
Statuses == {200, 404, 429, 500}
FnErrors == {"timeout", "not retryable"}
NoResp == [status |-> 0, headers |-> NoHeaders, data |-> NONE]
Payload(a, n) == <<"data", a, n>>

\* what the current attempt has done so far, and the current invocation
NewAttempt == [prev_rps |-> NONE, before_ok |-> FALSE, rejected |-> FALSE, took |-> 0,
               rate_used |-> 0, fn |-> 0, raised |-> FALSE, status |-> 0,
               succ |-> 0, fail |-> 0, dl |-> 0]
NewInvocation(closed) == [fn |-> 0, dl |-> 0, all500 |-> TRUE, closed0 |-> closed]

Entry(a, reason) == [args |-> a, kw |-> <<>>, reason |-> reason]

\* no opening yet, or the function has failed since the last one
NotOpened == 0 - 1

\* ------------------------------------------------------------------- Init
Threads == {"t1", "t2"}
IdleThread == [pc |-> "idle", n |-> 0, r |-> 0, t_now |-> 0, wake |-> 0, ops |-> 0,
               fc |-> 0, until |-> 0]
NoSet == [done |-> FALSE]
NoRefill == [done |-> FALSE]
NoAccount == [taken |-> 0, credit |-> 0, covered |-> 0]

\* nobody uses the limiter or the breaker except through the wrapper
InitDirect ==
  /\ lock = NONE
  /\ th = [t \in Threads |-> IdleThread]
  /\ last_set = NoSet
  /\ last_refill = NoRefill
  /\ acct = NoAccount
  /\ blog = <<>>

\* rl = DynamicRateLimiter(rps, capacity), cb = CircuitBreaker(fail_threshold,
\* reset_after), an empty dead_letter and one function wrapped by resilient(rl, cb, ...)
\* with base_backoff given as 0.2 s, or as 0.04 s where max_attempts is 6
InitWrapper ==
  /\ InitDirect
  /\ now = 0
  /\ capacity = 1
  /\ rate = 100000
  /\ tokens = capacity * TokenUnit
  /\ ts = 0
  /\ fail_threshold \in {1, 3, 6}
  /\ reset_after \in {20, 3000}
  /\ fail_count = 0
  /\ open_until = 0
  /\ dead_letter = <<>>
  /\ max_attempts \in {1, 2, 3, 6}
  /\ base_backoff = IF max_attempts = 6 THEN 4 ELSE 20
  /\ pc = "idle" /\ k = 0 /\ args = 0 /\ handling = NONE
  /\ resp = NoResp /\ exc = NONE /\ delay = 0 /\ outcome = [kind |-> "none"]
  /\ calls = 0 /\ tries = 0 /\ appended = <<>>
  /\ inv = NewInvocation(TRUE)
  /\ att = NewAttempt /\ sleeps = <<>> /\ spins = 0
  /\ opened = NotOpened

\* ---------------------------------------------------------------- wrapper
\* The caller invokes the wrapped function: at top level, `gap` ticks after the
\* last event, or at once from the handler of the error the previous call raised.
Invoke ==
  /\ pc \in {"idle", "done"}
  /\ calls < MaxCalls
  /\ calls = 0 \/ (calls + 1) * max_attempts <= MaxTries
  /\ \/ \E gap \in {0, 3000} :
          /\ now' = now + gap
          /\ handling' = NONE
     \/ /\ outcome.kind = "raise"
        /\ now' = now
        /\ handling' = outcome.msg
  /\ inv' = NewInvocation(~IsOpen(now', open_until) /\ fail_count = 0)
  /\ calls' = calls + 1
  /\ tries' = tries + 1
  /\ args' = calls + 1
  /\ k' = 1
  /\ pc' = "before"
  /\ resp' = NoResp /\ exc' = NONE /\ delay' = 0 /\ outcome' = [kind |-> "none"]
  /\ att' = NewAttempt /\ sleeps' = <<>> /\ spins' = 0
  /\ UNCHANGED <<direct, limiter, breaker, dead_letter, config, opened, appended>>

\* line 60: breaker.before()
Before ==
  /\ pc = "before"
  /\ IF IsOpen(now, open_until)
       THEN /\ exc' = "circuit-open"
            /\ pc' = "except"
            /\ att' = [att EXCEPT !.rejected = TRUE]
       ELSE /\ exc' = exc
            /\ pc' = "acquire"
            /\ att' = [att EXCEPT !.before_ok = TRUE]
  /\ UNCHANGED <<direct, now, limiter, breaker, dead_letter, config, opened, k, args, handling, resp,
                 delay, outcome, calls, tries, appended, inv, sleeps, spins>>

\* line 61, lines 21-28: one pass of acquire(1) under the lock
Acquire ==
  /\ pc = "acquire"
  /\ LET refilled == Refill(tokens, now - ts, rate, capacity * TokenUnit) IN
       IF refilled >= 1 * TokenUnit
         THEN /\ tokens' = refilled - 1 * TokenUnit
              /\ pc' = "call"
              /\ att' = [att EXCEPT !.took = @ + 1, !.rate_used = rate]
         ELSE /\ tokens' = refilled
              /\ pc' = "acquire_sleep"
              /\ att' = [att EXCEPT !.rate_used = rate]
  /\ ts' = now
  /\ UNCHANGED <<direct, now, capacity, rate, breaker, dead_letter, config, opened, k, args, handling,
                 resp, exc, delay, outcome, calls, tries, appended, inv, sleeps, spins>>

\* line 30: time.sleep(0.01 + random.random() * 0.02)
AcquireSleep ==
  /\ pc = "acquire_sleep"
  /\ spins < MaxSpins
  /\ \E s \in AcquireSleeps : now' = now + s
  /\ spins' = spins + 1
  /\ pc' = "acquire"
  /\ UNCHANGED <<direct, limiter, breaker, dead_letter, config, opened, k, args, handling, resp, exc,
                 delay, outcome, calls, tries, appended, inv, att, sleeps>>

\* lines 62-66: resp = fn(*args, **kw), which returns a response or raises; the
\* limiter follows the rate a response advertises
CallFn ==
  /\ pc = "call"
  /\ \/ \E s \in Statuses, h \in HeaderSets :
          LET new_rps == DictGet(h, RPSHeader) IN
          /\ resp' = [status |-> s, headers |-> h, data |-> Payload(args, inv.fn + 1)]
          /\ rate' = IF Truthy(new_rps) THEN ClampRate(Float(new_rps)) ELSE rate
          /\ exc' = exc
          /\ pc' = "classify"
          /\ inv' = [inv EXCEPT !.fn = @ + 1, !.all500 = @ /\ s = 500]
          /\ att' = [att EXCEPT !.fn = @ + 1, !.status = s]
     \/ \E m \in FnErrors :
          /\ exc' = m
          /\ resp' = resp
          /\ rate' = rate
          /\ pc' = "except"
          /\ inv' = [inv EXCEPT !.fn = @ + 1, !.all500 = FALSE]
          /\ att' = [att EXCEPT !.fn = @ + 1, !.raised = TRUE]
  /\ UNCHANGED <<direct, now, capacity, tokens, ts, breaker, dead_letter, config, opened, k, args,
                 handling, delay, outcome, calls, tries, appended, sleeps, spins>>

\* lines 67-74
Classify ==
  /\ pc = "classify"
  /\ IF ClassOf(resp.status) = "ok"
       THEN /\ fail_count' = 0
            /\ att' = [att EXCEPT !.succ = @ + 1]
            /\ outcome' = [kind |-> "return", value |-> resp.data]
            /\ pc' = "done"
            /\ UNCHANGED <<direct, exc, dead_letter, appended, inv>>
       ELSE IF ClassOf(resp.status) = "retryable"
         THEN /\ exc' = "retryable"
              /\ pc' = "except"
              /\ UNCHANGED <<direct, fail_count, att, outcome, dead_letter, appended, inv>>
         ELSE LET e == Entry(args, StatusReason(resp.status)) IN
              /\ dead_letter' = DequeAppend(dead_letter, e, DeadLetterMaxLen)
              /\ appended' = Append(appended, e)
              /\ inv' = [inv EXCEPT !.dl = @ + 1]
              /\ att' = [att EXCEPT !.dl = @ + 1]
              /\ exc' = BareRaise(handling)
              /\ pc' = "except"
              /\ UNCHANGED <<direct, fail_count, outcome>>
  /\ UNCHANGED <<direct, now, limiter, fail_threshold, reset_after, open_until, config, opened, k, args,
                 handling, resp, delay, calls, tries, sleeps, spins>>

\* lines 75-79 and the draw of random.random() of line 81
Except ==
  /\ pc = "except"
  /\ fail_count' = FailureCount(fail_count, fail_threshold)
  /\ open_until' = FailureOpenUntil(fail_count, fail_threshold, open_until, now, reset_after)
  /\ opened' = IF att.fn = 1
                 THEN (IF fail_count + 1 >= fail_threshold THEN now ELSE NotOpened)
                 ELSE (IF fail_count + 1 >= fail_threshold /\ opened = NotOpened
                         THEN now ELSE opened)
  /\ IF GiveUp(exc, k, max_attempts)
       THEN LET e == Entry(args, exc) IN
            /\ dead_letter' = DequeAppend(dead_letter, e, DeadLetterMaxLen)
            /\ appended' = Append(appended, e)
            /\ inv' = [inv EXCEPT !.dl = @ + 1]
            /\ att' = [att EXCEPT !.fail = @ + 1, !.dl = @ + 1]
            /\ outcome' = [kind |-> "raise", msg |-> exc]
            /\ pc' = "done"
            /\ delay' = delay
       ELSE /\ \E r \in RandomDraws(base_backoff, k) :
                 /\ OnTick(base_backoff, k, r)
                 /\ delay' = BackoffDelay(base_backoff, k, r)
            /\ att' = [att EXCEPT !.fail = @ + 1]
            /\ pc' = "backoff"
            /\ UNCHANGED <<direct, dead_letter, appended, inv, outcome>>
  /\ UNCHANGED <<direct, now, limiter, fail_threshold, reset_after, config, k, args, handling,
                 resp, exc, calls, tries, sleeps, spins>>

\* line 81: time.sleep(...), then the next pass of the for loop of line 58; a
\* loop that ran out would leave the wrapper by its end, returning None
Backoff ==
  /\ pc = "backoff"
  /\ now' = now + delay
  /\ sleeps' = Append(sleeps, delay)
  /\ exc' = NONE
  /\ resp' = NoResp
  /\ IF InRange(k + 1, max_attempts)
       THEN /\ k' = k + 1
            /\ tries' = tries + 1
            /\ pc' = "before"
            /\ att' = [NewAttempt EXCEPT !.prev_rps =
                         IF att.fn = 1 /\ ~att.raised
                           THEN DictGet(resp.headers, RPSHeader) ELSE NONE]
            /\ spins' = 0
            /\ outcome' = outcome
       ELSE /\ pc' = "done"
            /\ outcome' = [kind |-> "return", value |-> NONE]
            /\ UNCHANGED <<k, tries, att, spins>>
  /\ UNCHANGED <<direct, limiter, breaker, dead_letter, config, opened, args, handling, delay,
                 calls, appended, inv>>

Next ==
  \/ Invoke
  \/ Before
  \/ Acquire
  \/ AcquireSleep
  \/ CallFn
  \/ Classify
  \/ Except
  \/ Backoff

Spec == InitWrapper /\ [][Next]_vars

\* ------------------------------------------ a caller that paces its calls
\* The same wrapper, with a caller that may also wait 0.1 s between two calls, so
\* that calls fall inside and after the breaker's open interval of 0.2 s.
InitPaced ==
  /\ InitWrapper
  /\ fail_threshold \in {1, 3}
  /\ reset_after = 20
  /\ max_attempts \in {1, 2}

CallerWaits ==
  /\ pc \in {"idle", "done"}
  /\ now < MaxIdleTime
  /\ now' = now + 10
  /\ UNCHANGED <<direct, limiter, breaker, dead_letter, config, frame, history>>

NextPaced ==
  \/ Next
  \/ CallerWaits

SpecPaced == InitPaced /\ [][NextPaced]_vars

\* the steps of a running invocation (the wrapped function returns or raises)
Attempt == Before \/ Acquire \/ AcquireSleep \/ CallFn \/ Classify \/ Except \/ Backoff

\* ------------------------------------------- a CircuitBreaker used directly
\* No wrapper: one thread calls before(), success() and failure() as time passes.
NoWrapper ==
  /\ capacity = 1 /\ rate = 100000 /\ tokens = capacity * TokenUnit /\ ts = 0
  /\ dead_letter = <<>>
  /\ max_attempts = 1 /\ base_backoff = 20
  /\ pc = "idle" /\ k = 0 /\ args = 0 /\ handling = NONE
  /\ resp = NoResp /\ exc = NONE /\ delay = 0 /\ outcome = [kind |-> "none"]
  /\ calls = 0 /\ tries = 0 /\ appended = <<>>
  /\ inv = NewInvocation(TRUE)
  /\ att = NewAttempt /\ sleeps = <<>> /\ spins = 0
  /\ opened = NotOpened

\* cb = CircuitBreaker(fail_threshold, reset_after)
InitBreaker ==
  /\ NoWrapper
  /\ InitDirect
  /\ now = 0
  /\ fail_threshold \in {1, 2, 3}
  /\ reset_after \in {0, 2}
  /\ fail_count = 0
  /\ open_until = 0

BreakerCall(op, raised) ==
  [op |-> op, t |-> now, fc |-> fail_count, until |-> open_until, raised |-> raised]

notBreaker == <<limiter, dead_letter, config, frame, history, lock, th, last_set, last_refill, acct>>

BreakerTick ==
  /\ now < MaxBreakerTime
  /\ now' = now + 1
  /\ UNCHANGED <<breaker, blog, notBreaker>>

\* lines 38-40
CallBefore ==
  /\ Len(blog) < MaxBreakerCalls
  /\ blog' = Append(blog, BreakerCall("before", IsOpen(now, open_until)))
  /\ UNCHANGED <<now, breaker, notBreaker>>

\* lines 42-43
CallSuccess ==
  /\ Len(blog) < MaxBreakerCalls
  /\ fail_count' = 0
  /\ blog' = Append(blog, BreakerCall("success", FALSE))
  /\ UNCHANGED <<now, fail_threshold, reset_after, open_until, notBreaker>>

\* lines 45-48
CallFailure ==
  /\ Len(blog) < MaxBreakerCalls
  /\ fail_count' = FailureCount(fail_count, fail_threshold)
  /\ open_until' = FailureOpenUntil(fail_count, fail_threshold, open_until, now, reset_after)
  /\ blog' = Append(blog, BreakerCall("failure", FALSE))
  /\ UNCHANGED <<now, fail_threshold, reset_after, notBreaker>>

NextBreaker ==
  \/ BreakerTick
  \/ CallBefore
  \/ CallSuccess
  \/ CallFailure

SpecBreaker == InitBreaker /\ [][NextBreaker]_vars

\* --------------------------------------- a DynamicRateLimiter used directly
\* No wrapper: threads call acquire(n) and set_rate(rps) on one limiter as time
\* passes.  th[t].pc is the line thread t is at; lock is the holder of self.lock.
SetRates == {0 - 50000, 0, 100000}
AcquireSizes == {1, 2}

\* rl = DynamicRateLimiter(rps, capacity): the rate is float(rps) as given
InitLimiter ==
  /\ InitDirect
  /\ now = 0
  /\ capacity \in {0, 2}
  /\ rate \in {0 - 50000, 0, 50000}
  /\ tokens = capacity * TokenUnit
  /\ ts = 0
  /\ fail_threshold = 1 /\ reset_after = 0 /\ fail_count = 0 /\ open_until = 0
  /\ dead_letter = <<>>
  /\ max_attempts = 1 /\ base_backoff = 20
  /\ pc = "idle" /\ k = 0 /\ args = 0 /\ handling = NONE
  /\ resp = NoResp /\ exc = NONE /\ delay = 0 /\ outcome = [kind |-> "none"]
  /\ calls = 0 /\ tries = 0 /\ appended = <<>>
  /\ inv = NewInvocation(TRUE)
  /\ att = NewAttempt /\ sleeps = <<>> /\ spins = 0
  /\ opened = NotOpened

notLimiter == <<breaker, dead_letter, config, frame, history, blog>>
notBucket == <<acct, notLimiter>>

\* the calls made so far, returned or not
RECURSIVE SumOver(_, _)
SumOver(f, S) == IF S = {} THEN 0 ELSE LET x == CHOOSE y \in S : TRUE
                                       IN  f[x] + SumOver(f, S \ {x})
LimiterCalls ==
  SumOver([t \in Threads |-> th[t].ops + (IF th[t].pc = "idle" THEN 0 ELSE 1)], Threads)

LimiterTick ==
  /\ now < MaxLimiterTime
  /\ now' = now + 1
  /\ UNCHANGED <<limiter, lock, th, last_set, last_refill, notBucket>>

\* a thread calls acquire(n)
StartAcquire(t) ==
  /\ th[t].pc = "idle"
  /\ LimiterCalls < MaxLimiterCalls
  /\ \E n \in AcquireSizes : th' = [th EXCEPT ![t].pc = "a_lock", ![t].n = n]
  /\ UNCHANGED <<now, limiter, lock, last_set, last_refill, notBucket>>

\* line 21: with self.lock
AcquireLock(t) ==
  /\ th[t].pc = "a_lock"
  /\ lock = NONE
  /\ lock' = t
  /\ th' = [th EXCEPT ![t].pc = "a_refill"]
  /\ UNCHANGED <<now, limiter, last_set, last_refill, notBucket>>

\* lines 22-24: now = time.time(); self.tokens = min(capacity, tokens + (now - ts) * rate)
AcquireRefill(t) ==
  /\ th[t].pc = "a_refill"
  /\ tokens' = Refill(tokens, now - ts, rate, capacity * TokenUnit)
  /\ th' = [th EXCEPT ![t].pc = "a_stamp", ![t].t_now = now]
  /\ last_refill' = [done |-> TRUE, from |-> tokens, elapsed |-> now - ts, to |-> tokens']
  /\ acct' = [acct EXCEPT !.credit = @ + (tokens' - tokens), !.covered = @ + (now - ts)]
  /\ UNCHANGED <<now, capacity, rate, ts, lock, last_set, notLimiter>>

\* line 25: self.ts = now
AcquireStamp(t) ==
  /\ th[t].pc = "a_stamp"
  /\ ts' = th[t].t_now
  /\ th' = [th EXCEPT ![t].pc = "a_check"]
  /\ UNCHANGED <<now, capacity, rate, tokens, lock, last_set, last_refill, notBucket>>

\* lines 26-30: take the tokens and return, or leave the lock and sleep
AcquireCheck(t) ==
  /\ th[t].pc = "a_check"
  /\ IF tokens >= th[t].n * TokenUnit
       THEN /\ tokens' = tokens - th[t].n * TokenUnit
            /\ th' = [th EXCEPT ![t].pc = "idle", ![t].ops = @ + 1]
            /\ acct' = [acct EXCEPT !.taken = @ + th[t].n * TokenUnit]
       ELSE /\ tokens' = tokens
            /\ \E s \in AcquireSleeps :
                 th' = [th EXCEPT ![t].pc = "a_sleep", ![t].wake = now + s]
            /\ acct' = acct
  /\ lock' = NONE
  /\ UNCHANGED <<now, capacity, rate, ts, last_set, last_refill, notLimiter>>

\* line 30: the sleep is over, back to line 20
AcquireWake(t) ==
  /\ th[t].pc = "a_sleep"
  /\ now >= th[t].wake
  /\ th' = [th EXCEPT ![t].pc = "a_lock"]
  /\ UNCHANGED <<now, limiter, lock, last_set, last_refill, notBucket>>

\* a thread calls set_rate(rps)
StartSetRate(t) ==
  /\ th[t].pc = "idle"
  /\ LimiterCalls < MaxLimiterCalls
  /\ \E r \in SetRates : th' = [th EXCEPT ![t].pc = "s_lock", ![t].r = r]
  /\ UNCHANGED <<now, limiter, lock, last_set, last_refill, notBucket>>

\* line 15: with self.lock
SetRateLock(t) ==
  /\ th[t].pc = "s_lock"
  /\ lock = NONE
  /\ lock' = t
  /\ th' = [th EXCEPT ![t].pc = "s_write"]
  /\ UNCHANGED <<now, limiter, last_set, last_refill, notBucket>>

\* line 16: self.rate = max(0.001, float(rps))
SetRateWrite(t) ==
  /\ th[t].pc = "s_write"
  /\ rate' = ClampRate(th[t].r)
  /\ lock' = NONE
  /\ th' = [th EXCEPT ![t].pc = "idle", ![t].ops = @ + 1]
  /\ last_set' = [done |-> TRUE, r |-> th[t].r]
  /\ last_refill' = NoRefill
  /\ UNCHANGED <<now, capacity, tokens, ts, notBucket>>

NextLimiter ==
  \/ LimiterTick
  \/ \E t \in Threads : StartAcquire(t)
  \/ \E t \in Threads : AcquireLock(t)
  \/ \E t \in Threads : AcquireRefill(t)
  \/ \E t \in Threads : AcquireStamp(t)
  \/ \E t \in Threads : AcquireCheck(t)
  \/ \E t \in Threads : AcquireWake(t)
  \/ \E t \in Threads : StartSetRate(t)
  \/ \E t \in Threads : SetRateLock(t)
  \/ \E t \in Threads : SetRateWrite(t)

SpecLimiter == InitLimiter /\ [][NextLimiter]_vars

\* ------------------------------------ a CircuitBreaker shared by threads
\* No wrapper: threads call failure() on one breaker.  Nothing guards the
\* breaker's fields, so each read and each write of lines 46-48 is a step of its
\* own; th[t].fc is the fail_count a thread has read, th[t].until the value it
\* has computed for open_until.
InitRace ==
  /\ NoWrapper
  /\ InitDirect
  /\ now = 0
  /\ fail_threshold \in {1, 2, 3}
  /\ reset_after = 100
  /\ fail_count = 0
  /\ open_until = 0

notRace == <<limiter, dead_letter, config, frame, history, lock, last_set, last_refill, acct, blog>>

RaceCalls ==
  SumOver([t \in Threads |-> th[t].ops + (IF th[t].pc = "idle" THEN 0 ELSE 1)], Threads)

RaceTick ==
  /\ now < MaxRaceTime
  /\ now' = now + 1
  /\ UNCHANGED <<breaker, th, notRace>>

\* a thread calls failure()
StartFailure(t) ==
  /\ th[t].pc = "idle"
  /\ RaceCalls < MaxRaceCalls
  /\ th' = [th EXCEPT ![t].pc = "f_load"]
  /\ UNCHANGED <<now, breaker, notRace>>

\* line 46, self.fail_count += 1: the read
FailureLoad(t) ==
  /\ th[t].pc = "f_load"
  /\ th' = [th EXCEPT ![t].pc = "f_store", ![t].fc = fail_count]
  /\ UNCHANGED <<now, breaker, notRace>>

\* line 46, self.fail_count += 1: the write
FailureStore(t) ==
  /\ th[t].pc = "f_store"
  /\ fail_count' = th[t].fc + 1
  /\ th' = [th EXCEPT ![t].pc = "f_test"]
  /\ UNCHANGED <<now, fail_threshold, reset_after, open_until, notRace>>

\* line 47: if self.fail_count >= self.fail_threshold
FailureTest(t) ==
  /\ th[t].pc = "f_test"
  /\ th' = IF fail_count >= fail_threshold
             THEN [th EXCEPT ![t].pc = "f_time"]
             ELSE [th EXCEPT ![t].pc = "idle", ![t].ops = @ + 1]
  /\ UNCHANGED <<now, breaker, notRace>>

\* line 48, right-hand side: time.time() + self.reset_after
FailureTime(t) ==
  /\ th[t].pc = "f_time"
  /\ th' = [th EXCEPT ![t].pc = "f_open", ![t].until = now + reset_after]
  /\ UNCHANGED <<now, breaker, notRace>>

\* line 48: the write of self.open_until
FailureOpen(t) ==
  /\ th[t].pc = "f_open"
  /\ open_until' = th[t].until
  /\ th' = [th EXCEPT ![t].pc = "f_reset"]
  /\ UNCHANGED <<now, fail_threshold, reset_after, fail_count, notRace>>

\* line 48: the write of self.fail_count
FailureReset(t) ==
  /\ th[t].pc = "f_reset"
  /\ fail_count' = 0
  /\ th' = [th EXCEPT ![t].pc = "idle", ![t].ops = @ + 1]
  /\ UNCHANGED <<now, fail_threshold, reset_after, open_until, notRace>>

NextRace ==
  \/ RaceTick
  \/ \E t \in Threads : StartFailure(t)
  \/ \E t \in Threads : FailureLoad(t)
  \/ \E t \in Threads : FailureStore(t)
  \/ \E t \in Threads : FailureTest(t)
  \/ \E t \in Threads : FailureTime(t)
  \/ \E t \in Threads : FailureOpen(t)
  \/ \E t \in Threads : FailureReset(t)

SpecRace == InitRace /\ [][NextRace]_vars

\* =================================================================== claims
NonRetryableStatus(st) == st /= 200 /\ st \notin RetryableStatuses
Raised == pc = "done" /\ outcome.kind = "raise"
Returned == pc = "done" /\ outcome.kind = "return"
LastOf(q, n) == SubSeq(q, Len(q) - n + 1, Len(q))

\* C1: every invocation that propagates an error has appended exactly one
\* dead-letter entry during that invocation by the time the error propagates.
C1_ExactlyOneDeadLetter == Raised => inv.dl = 1

\* C2 as stated: with max_attempts = 6 and the breaker closed with no counted
\* failure at the start, whatever fail_threshold and reset_after, a function that
\* answers 500 every time is invoked exactly 6 times, the error of a retryable status
\* on the last attempt is raised and exactly one dead-letter entry is added.
C2_AnyThreshold ==
  (pc = "done" /\ max_attempts = 6 /\ inv.closed0 /\ inv.all500)
    => (inv.fn = 6 /\ outcome = [kind |-> "raise", msg |-> "retryable"] /\ inv.dl = 1)

\* C2 amended: the same, when fail_threshold >= 6, so that the breaker cannot open
\* before the sixth attempt.
C2_ThresholdAtLeastSix ==
  (pc = "done" /\ max_attempts = 6 /\ inv.closed0 /\ inv.all500 /\ fail_threshold >= 6)
    => (inv.fn = 6 /\ outcome = [kind |-> "raise", msg |-> "retryable"] /\ inv.dl = 1
        /\ Len(sleeps) = 5)

C2_Witness ==
  /\ pc = "done" /\ max_attempts = 6 /\ inv.closed0 /\ inv.all500 /\ fail_threshold >= 6
  /\ inv.fn = 6 /\ Len(dead_letter) = 1 /\ dead_letter[1].reason = "retryable"

\* C3: a non-retryable status on the first attempt is not retried: one invocation
\* of the function, one breaker.failure(), no backoff sleep, the error propagates
\* on attempt 1.
C3_NotRetried ==
  (k = 1 /\ att.fn = 1 /\ ~att.raised /\ NonRetryableStatus(att.status)
     /\ pc \in {"backoff", "done"})
    => (Raised /\ inv.fn = 1 /\ att.fail = 1 /\ sleeps = <<>> /\ delay = 0)

\* C4: from a closed breaker with fail_count 0, fail_threshold consecutive
\* failure() calls open it at the time T of the last of them: every later before()
\* at a time t < T + reset_after raises, and every later before() at a time
\* t >= T + reset_after with no failure() in between returns.
OpeningRun(i) ==
  /\ i + fail_threshold - 1 <= Len(blog)
  /\ blog[i].fc = 0
  /\ blog[i].t >= blog[i].until
  /\ \A m \in i..(i + fail_threshold - 1) : blog[m].op = "failure"
C4_OpensThenCloses ==
  \A i \in 1..Len(blog) :
    OpeningRun(i) =>
      LET j == i + fail_threshold - 1
          closes == blog[j].t + reset_after
      IN  \A m \in (j + 1)..Len(blog) :
            blog[m].op = "before" =>
              /\ blog[m].t < closes => blog[m].raised
              /\ (blog[m].t >= closes
                    /\ \A f \in (j + 1)..(m - 1) : blog[f].op /= "failure")
                   => ~blog[m].raised

C4_Witness ==
  /\ fail_threshold = 3 /\ reset_after = 2 /\ Len(blog) = 5
  /\ OpeningRun(1)
  /\ blog[4].op = "before" /\ blog[4].raised /\ blog[4].t = blog[3].t + 1
  /\ blog[5].op = "before" /\ ~blog[5].raised /\ blog[5].t = blog[3].t + 2

\* C5: whatever acquire(n) and set_rate calls are made, in any interleaving, with
\* a clock that never goes back, 0 <= tokens <= capacity whenever the lock is free.
C5_TokensInRange == lock = NONE => (0 <= tokens /\ tokens <= capacity * TokenUnit)

\* C6: the dead-letter queue never holds more than its capacity, and holds exactly
\* the min(capacity, appends) most recent entries in insertion order.
C6_MostRecent ==
  /\ Len(dead_letter) <= DeadLetterMaxLen
  /\ dead_letter = LastOf(appended, Min(DeadLetterMaxLen, Len(appended)))

C6_Witness ==
  /\ Len(appended) > DeadLetterMaxLen
  /\ Len(dead_letter) = DeadLetterMaxLen
  /\ dead_letter[1] /= appended[1]

\* C7: a response that carries X-Rate-Limit-RPS with value r has set the rate to
\* max(0.001, r) by the time its status is classified, whatever the status, and
\* the acquire of the next attempt refills at that rate.
C7_RateFollowsHeader ==
  /\ (pc = "classify" /\ RPSHeader \in DOMAIN resp.headers)
       => rate = Max(RateFloor, Float(resp.headers[RPSHeader]))
  /\ (pc \in {"call", "acquire_sleep"} /\ att.prev_rps /= NONE)
       => att.rate_used = Max(RateFloor, Float(att.prev_rps))

C7_Witness ==
  /\ pc = "call" /\ k = 2 /\ att.prev_rps = "10" /\ att.rate_used = 10000
  /\ rate = 10000

\* C8: an invocation invokes the wrapped function at most max_attempts times,
\* makes at most max_attempts attempts and, unless an acquire never returns,
\* ends: it raises or returns the payload of a response.  Ending is stated by a
\* measure: a running invocation can always take a step unless its acquire is
\* blocked, and every step raises (attempt, polls of acquire, line), which is bounded.
AcquireBlocked == pc = "acquire_sleep" /\ spins = MaxSpins
Running == pc \notin {"idle", "done"}
LineRank(l) ==
  CASE l = "before" -> 1 [] l = "acquire" -> 2 [] l = "acquire_sleep" -> 3
    [] l = "call" -> 4 [] l = "classify" -> 5 [] l = "except" -> 6
    [] l = "backoff" -> 7 [] l = "done" -> 8 [] l = "idle" -> 0
Progress ==
  \/ k' > k
  \/ k' = k /\ spins' > spins
  \/ k' = k /\ spins' = spins /\ LineRank(pc') > LineRank(pc)
C8_Bounded ==
  /\ inv.fn <= max_attempts
  /\ k <= max_attempts
  /\ spins <= MaxSpins
  /\ Len(sleeps) < max_attempts
  /\ pc = "done" => (Raised \/ (Returned /\ outcome.value /= NONE))
  /\ Running => (AcquireBlocked \/ ENABLED Attempt)
C8_EndsWithinMaxAttempts == []C8_Bounded /\ [][Running => Progress]_vars

C8_Witness ==
  /\ pc = "done" /\ max_attempts = 2 /\ inv.fn = 2 /\ k = 2 /\ Raised
  /\ outcome.msg = "retryable"

\* C9: by the end of an attempt exactly one breaker update has happened:
\* success() when the function returned status 200, failure() otherwise (retryable
\* or non-retryable status, circuit-open rejection, raised exception).
C9_OneBreakerUpdate ==
  /\ att.succ + att.fail <= 1
  /\ pc \in {"done", "backoff"} =>
       /\ att.succ + att.fail = 1
       /\ att.succ = 1 <=> (att.fn = 1 /\ ~att.raised /\ att.status = 200)

C9_Witness ==
  /\ pc = "backoff" /\ att.fail = 1 /\ att.succ = 0 /\ att.status = 429
  /\ k = 1

\* C10: set_rate(r) writes max(0.001, r) to the rate, which is positive
\* afterwards, and leaves tokens and the refill timestamp alone; the refill of the
\* next acquire credits the time since the last refill at the new rate.
SetRateCompletes(t) == th[t].pc = "s_write" /\ th'[t].pc = "idle"
C10_SetRateFrame ==
  \A t \in Threads :
    SetRateCompletes(t) =>
      /\ rate' = (IF th[t].r < RateFloor THEN RateFloor ELSE th[t].r)
      /\ rate' > 0
      /\ tokens' = tokens /\ ts' = ts /\ capacity' = capacity
C10_NextRefillUsesNewRate ==
  (last_set.done /\ last_refill.done) =>
    last_refill.to =
      Min(capacity * TokenUnit,
          last_refill.from + last_refill.elapsed
             * (IF last_set.r < RateFloor THEN RateFloor ELSE last_set.r))
C10_SetRate == [][C10_SetRateFrame]_vars /\ []C10_NextRefillUsesNewRate

C10_Witness ==
  /\ last_set.done /\ last_set.r = 0 /\ rate = RateFloor
  /\ last_refill.done /\ last_refill.elapsed = 2 /\ last_refill.to = last_refill.from + 2

\* C11: threads sharing a breaker that is closed with fail_count 0 make
\* fail_threshold or more failure() calls, in any interleaving, and no success()
\* call: once all of those calls have completed the breaker is open.
AllCompleted == \A t \in Threads : th[t].pc = "idle"
CompletedCalls == SumOver([t \in Threads |-> th[t].ops], Threads)
C11_NoLostFailure ==
  (AllCompleted /\ CompletedCalls >= fail_threshold) => now < open_until

\* C12: acquire's refill-check-deduct and set_rate's write exclude each other:
\* the fields are touched only by the holder of the lock, each elapsed interval
\* is credited exactly once (the intervals credited add up to the refill
\* timestamp), at one rate, and the tokens handed to the acquire calls that have
\* returned never exceed the initial tokens plus the credit refilled.
InCritical(t) == th[t].pc \in {"a_refill", "a_stamp", "a_check", "s_write"}
C12_Exclusive == \A t \in Threads : InCritical(t) => lock = t
C12_CreditedOnce == lock = NONE => acct.covered = ts
C12_NoTokenTwice == acct.taken <= capacity * TokenUnit + acct.credit
C12_MutuallyAtomic == C12_Exclusive /\ C12_CreditedOnce /\ C12_NoTokenTwice

\* C13 as stated: a single caller's acquire(n), for every n >= 1, on a limiter
\* with a positive rate leaves line 26 in one of two ways only: it returns, having
\* deducted exactly n tokens, or it sleeps one of the short intervals and
\* re-evaluates, keeping what was credited; and it sleeps only while the time
\* elapsed has not yet credited n tokens, so it returns once enough time has elapsed.
SingleCaller(t) == \A u \in Threads \ {t} : th[u].pc = "idle" /\ th[u].ops = 0
Checks(t) == th[t].pc = "a_check" /\ th'[t].pc /= "a_check"
EnoughElapsed(t) ==
  last_refill.done /\ last_refill.from + last_refill.elapsed * rate >= th[t].n * TokenUnit
AcquirePass(t) ==
  /\ th'[t].pc \in {"idle", "a_sleep"}
  /\ th'[t].pc = "idle" =>
       /\ tokens' = tokens - th[t].n * TokenUnit
       /\ tokens' >= 0
       /\ th'[t].ops = th[t].ops + 1
  /\ th'[t].pc = "a_sleep" =>
       /\ ~EnoughElapsed(t)
       /\ tokens' = tokens
       /\ ts' = th[t].t_now
       /\ th'[t].wake - now \in AcquireSleeps
C13_Pass ==
  \A t \in Threads :
    (Checks(t) /\ SingleCaller(t) /\ rate > 0 /\ th[t].n >= 1) => AcquirePass(t)
C13_EveryN == [][C13_Pass]_vars

\* C13 amended: the same for 1 <= n <= capacity.
C13_PassWithinCapacity ==
  \A t \in Threads :
    (Checks(t) /\ SingleCaller(t) /\ rate > 0 /\ th[t].n >= 1 /\ th[t].n <= capacity)
      => AcquirePass(t)
C13_UpToCapacity == [][C13_PassWithinCapacity]_vars

C13_Witness ==
  /\ SingleCaller("t1") /\ rate > 0
  /\ th["t1"].pc = "idle" /\ th["t1"].ops = 2 /\ th["t1"].n = 1
  /\ th["t1"].wake > 0 /\ acct.taken = 3 * TokenUnit

\* C14: attempt k+1 is made only when the function, invoked in attempt k,
\* returned a status in {429, 500, 502, 503, 504}; every other outcome of an
\* attempt (an exception raised by the function whatever its message, a
\* circuit-open rejection, any other non-200 status) ends the invocation on that
\* attempt with the error propagated.
ReturnedStatus(S) == att.fn = 1 /\ ~att.raised /\ att.status \in S
C14_RetryOnlyRetryableStatus ==
  /\ pc = "backoff" => ReturnedStatus(RetryableStatuses)
  /\ (pc \in {"backoff", "done"} /\ ~ReturnedStatus(RetryableStatuses \cup {200}))
       => Raised

\* C15: after the breaker has opened at a time T and closed by timeout at
\* T + reset_after, it does not open again until at least fail_threshold
\* failure() calls have been made at or after that closing time, whatever was
\* counted while it was open.
Opens(i) == blog[i].op = "failure" /\ blog[i].fc + 1 >= fail_threshold
FailuresFrom(t, lo, hi) ==
  Cardinality({m \in lo..hi : blog[m].op = "failure" /\ blog[m].t >= t})
C15_FullThresholdAfterClosing ==
  \A i \in 1..Len(blog) : \A j \in (i + 1)..Len(blog) :
    (/\ Opens(i) /\ Opens(j)
     /\ \A m \in (i + 1)..(j - 1) : ~Opens(m)
     /\ blog[j].t >= blog[i].t + reset_after)
      => FailuresFrom(blog[i].t + reset_after, i + 1, j) >= fail_threshold

\* C16: through the wrapper the breaker closes by elapsed time only: once it has
\* opened at a time T and no invocation of the function has failed after T, no
\* attempt made at a time >= T + reset_after is rejected by breaker.before(),
\* however many attempts were rejected as circuit-open in between.
C16_ClosesByTimeOnly ==
  (pc = "except" /\ att.rejected /\ opened /= NotOpened) => now < opened + reset_after

\* C17: in every attempt the order is breaker.before(), acquire of exactly one
\* token, the function: the function is invoked only after a before() that passed
\* and the deduction of one token in the same attempt, a before() passes only
\* while the breaker is closed, and an attempt made while it is open neither
\* deducts a token nor invokes the function.
C17_Ordered ==
  /\ att.fn <= 1 /\ att.took <= 1
  /\ att.fn = 1 => (att.before_ok /\ att.took = 1)
  /\ att.took = 1 => att.before_ok
  /\ pc = "call" => (att.before_ok /\ att.took = 1 /\ att.fn = 0)
  /\ (pc = "acquire" /\ spins = 0) => (att.before_ok /\ ~(now < open_until))
  /\ (pc = "except" /\ now < open_until /\ att.fn = 0) => att.rejected
  /\ att.rejected => (~att.before_ok /\ att.took = 0 /\ att.fn = 0)
C17_OneToken ==
  /\ (pc = "acquire" /\ pc' = "call")
       => tokens' = Min(capacity * TokenUnit, tokens + (now - ts) * rate) - TokenUnit
  /\ pc /= "acquire" => tokens' = tokens
C17_BeforeAcquireCall == []C17_Ordered /\ [][C17_OneToken]_vars

C17_Witness ==
  /\ pc = "done" /\ k = 2 /\ inv.fn = 1 /\ att.rejected /\ att.took = 0
  /\ outcome = [kind |-> "raise", msg |-> "circuit-open"]

\* C18: the backoff slept after failed attempt k is base_backoff * 2^(k-1) * j
\* with 0.9 <= j < 1.1; a sleep happens only after a retryable outcome, an attempt
\* whose function returned a retryable status, and with k < max_attempts; and
\* whatever the jitter values, the delays of one invocation are strictly
\* increasing in k.
C18_InBand(i) ==
  /\ 10 * sleeps[i] >= 9 * base_backoff * Pow2(i - 1)
  /\ 10 * sleeps[i] < 11 * base_backoff * Pow2(i - 1)
C18_Delays ==
  /\ \A i \in 1..Len(sleeps) : C18_InBand(i)
  /\ \A i \in 1..(Len(sleeps) - 1) : sleeps[i] < sleeps[i + 1]
  /\ pc /= "idle" => Len(sleeps) = k - 1
  /\ pc = "backoff" =>
       /\ k < max_attempts
       /\ att.fail = 1
       /\ 10 * delay >= 9 * base_backoff * Pow2(k - 1)
       /\ 10 * delay < 11 * base_backoff * Pow2(k - 1)
C18_AfterRetryableOutcome ==
  pc = "backoff" => ReturnedStatus(RetryableStatuses)
C18_Backoff == C18_Delays /\ C18_AfterRetryableOutcome

\* C19: for a breaker with fail_threshold >= 1 used by one thread, after every
\* completed success() or failure() call 0 <= fail_count < fail_threshold;
\* open_until never decreases; and success() leaves open_until unchanged, so a
\* success while the breaker is open does not close it.
LastCall == blog'[Len(blog')]
C19_CountInRange == 0 <= fail_count /\ fail_count < fail_threshold
C19_OpenUntilStep ==
  /\ open_until' >= open_until
  /\ (Len(blog') = Len(blog) + 1 /\ LastCall.op = "success")
       => (open_until' = open_until /\ fail_count' = 0)
C19_BreakerInvariant == []C19_CountInRange /\ [][C19_OpenUntilStep]_vars

C19_Witness ==
  /\ Len(blog) >= 3
  /\ \E i \in 1..(Len(blog) - 1) :
        /\ blog[i].op = "success" /\ blog[i].t < blog[i].until
        /\ blog[i + 1].op = "before" /\ blog[i + 1].raised
  /\ fail_count = 0 /\ now < open_until

\* C20: with max_attempts >= 1 an invocation returns normally only when its
\* last invocation of the function returned status 200; it then returns the data
\* of that response, has appended no dead-letter entry during the invocation
\* (also when earlier attempts failed with retryable statuses), and its success()
\* call has reset fail_count to 0.
C20_ReturnsOnlyOn200 ==
  Returned =>
    /\ att.fn = 1 /\ ~att.raised /\ att.status = 200
    /\ outcome.value = Payload(args, inv.fn)
    /\ att.succ = 1 /\ fail_count = 0
C20_NoDeadLetter == Returned => (inv.dl = 0 /\ att.dl = 0)
C20_NormalReturn == C20_ReturnsOnlyOn200 /\ C20_NoDeadLetter
====
